---------------------------- MODULE Spec2Model ----------------------------
(***************************************************************************)
(* A model of epa.rs (Ewens-Pitman attraction partition distribution):     *)
(* the square similarity matrix and its borrowed view, EpaParameters and   *)
(* its three permutation strategies, and the sequential sampler.           *)
(*                                                                         *)
(* The collaborators of crate::clust (Clustering) and crate::perm          *)
(* (Permutation) are modelled from their documented contract.              *)
(***************************************************************************)
EXTENDS Integers, Sequences, FiniteSets, TLC

(***************************************************************************)
(* Bounds of the model.                                                    *)
(***************************************************************************)
\* largest n_items of a matrix or a permutation
MaxN == 3
\* matrix entries written through data_mut() are the integers -1 .. MaxVal
MaxVal == 2
\* number of data_mut() writes after the factory call
MaxWrites == 1

(***************************************************************************)
(* f64.  A value is a record: a finite value is the exact rational n/d in  *)
(* lowest terms (d > 0); the others are NaN and the two infinities.        *)
(* Arithmetic follows IEEE-754 on the special values (x/0, 0/0, 0*inf,     *)
(* inf-inf); on finite values it is exact, i.e. rounding is not modelled,  *)
(* and the sign of zero is not modelled (no input is -0.0).                *)
(***************************************************************************)
Abs(x) == IF x < 0 THEN -x ELSE x

RECURSIVE Gcd(_, _)
Gcd(a, b) == IF b = 0 THEN a ELSE Gcd(b, a % b)

Fin(n, d) ==
    LET s == IF d < 0 THEN -1 ELSE 1
        g == Gcd(Abs(n), Abs(d))
    IN  [k |-> "fin", n |-> (s * n) \div g, d |-> (s * d) \div g]

F(x) == [k |-> "fin", n |-> x, d |-> 1]
NaN == [k |-> "nan", n |-> 0, d |-> 1]
Inf == [k |-> "pinf", n |-> 0, d |-> 1]
NegInf == [k |-> "ninf", n |-> 0, d |-> 1]

\* -1, 0, 1 for a finite or infinite value
Sign(x) ==
    CASE x.k = "pinf" -> 1
      [] x.k = "ninf" -> -1
      [] OTHER -> IF x.n > 0 THEN 1 ELSE IF x.n < 0 THEN -1 ELSE 0

SignedInf(s) == IF s > 0 THEN Inf ELSE NegInf

FAdd(x, y) ==
    CASE x.k = "nan" \/ y.k = "nan" -> NaN
      [] x.k = "fin" /\ y.k = "fin" -> Fin(x.n * y.d + y.n * x.d, x.d * y.d)
      [] x.k = "fin" -> y
      [] y.k = "fin" -> x
      [] OTHER -> IF x.k = y.k THEN x ELSE NaN

FNeg(x) ==
    CASE x.k = "fin" -> [x EXCEPT !.n = -x.n]
      [] x.k = "pinf" -> NegInf
      [] x.k = "ninf" -> Inf
      [] OTHER -> NaN

FSub(x, y) == FAdd(x, FNeg(y))

FMul(x, y) ==
    CASE x.k = "nan" \/ y.k = "nan" -> NaN
      [] x.k = "fin" /\ y.k = "fin" -> Fin(x.n * y.n, x.d * y.d)
      [] OTHER -> IF Sign(x) * Sign(y) = 0 THEN NaN
                  ELSE SignedInf(Sign(x) * Sign(y))

FDiv(x, y) ==
    CASE x.k = "nan" \/ y.k = "nan" -> NaN
      [] x.k = "fin" /\ y.k = "fin" ->
            IF y.n # 0 THEN Fin(x.n * y.d, x.d * y.n)
            ELSE IF x.n = 0 THEN NaN ELSE SignedInf(Sign(x))
      [] x.k = "fin" -> F(0)
      [] y.k = "fin" -> SignedInf(Sign(x) * (IF Sign(y) < 0 THEN -1 ELSE 1))
      [] OTHER -> NaN

\* x > y ; false when either is NaN
FGt(x, y) ==
    CASE x.k = "nan" \/ y.k = "nan" -> FALSE
      [] x.k = "fin" /\ y.k = "fin" -> x.n * y.d > y.n * x.d
      [] x.k = "pinf" -> y.k # "pinf"
      [] x.k = "ninf" -> FALSE
      [] OTHER -> y.k = "ninf"

\* x >= y ; false when either is NaN
FGe(x, y) == FGt(x, y) \/ (x.k # "nan" /\ x = y)

(***************************************************************************)
(* Vec helpers.  Model sequences are 1-based; the code's index k is the    *)
(* model's position k + 1.                                                 *)
(***************************************************************************)
Range(s) == {s[k] : k \in DOMAIN s}

Fill(len, v) == [k \in 1..len |-> v]

\* (0..n).collect()
Natural(n) == [k \in 1..n |-> k - 1]

\* every vector that Permutation::from_vector accepts for n items
IsPermutation(p, n) == Len(p) = n /\ Range(p) = 0..(n - 1)

AllPermutations(n) == {p \in [1..n -> 0..(n - 1)] : IsPermutation(p, n)}


(***************************************************************************)
(* SquareMatrix and SquareMatrixBorrower.                                  *)
(***************************************************************************)
\* SquareMatrix::zeros
zeros(n_items) == [data |-> Fill(n_items * n_items, F(0)), n_items |-> n_items]

\* SquareMatrix::ones
ones(n_items) == [data |-> Fill(n_items * n_items, F(1)), n_items |-> n_items]

\* identity with the stride n_items instead of n_items + 1
identity_stride_n(n_items) ==
    LET n2 == n_items * n_items
        RECURSIVE loop(_, _)
        loop(data, k) == IF k < n2 THEN loop([data EXCEPT ![k + 1] = F(1)], k + n_items)
                         ELSE data
    IN  [data |-> loop(Fill(n2, F(0)), 0), n_items |-> n_items]

\* the while loop of SquareMatrix::identity, from offset i on
RECURSIVE identity_loop(_, _, _, _)
identity_loop(data, i, ni1, n2) ==
    IF i < n2
    THEN identity_loop([data EXCEPT ![i + 1] = F(1)], i + ni1, ni1, n2)
    ELSE data

\* SquareMatrix::identity
identity(n_items) ==
    LET ni1 == n_items + 1
        n2 == n_items * n_items
    IN  [data |-> identity_loop(Fill(n2, F(0)), 0, ni1, n2), n_items |-> n_items]

\* SquareMatrixBorrower::from_slice: ok is the assert_eq!
from_slice(data, n_items) ==
    [ok |-> Len(data) = n_items * n_items, data |-> data, n_items |-> n_items]

\* SquareMatrix::view
view(m) == from_slice(m.data, m.n_items)

\* the offset that index and get_unchecked compute for (i, j)
offset(v, i, j) == v.n_items * j + i

\* Index<(usize, usize)>::index: the slice access data[offset] panics exactly
\* when the offset is not below data.len()
index(v, i, j) ==
    IF offset(v, i, j) < Len(v.data)
    THEN [k |-> "value", v |-> v.data[offset(v, i, j) + 1]]
    ELSE [k |-> "panic"]

\* similarity[(i, j)] where the code ignores the possibility of a panic
\* (all its indices are items of a permutation of size n_items)
at(v, i, j) == v.data[offset(v, i, j) + 1]

\* get_unchecked
get_unchecked(v, i, j) == v.data[offset(v, i, j) + 1]

\* SquareMatrixBorrower::sum_of_row_subset: the for loop over columns
RECURSIVE sum_of_row_subset_from(_, _, _, _, _)
sum_of_row_subset_from(v, row, columns, k, sum) ==
    IF k > Len(columns) THEN sum
    ELSE sum_of_row_subset_from(v, row, columns, k + 1,
                                FAdd(sum, get_unchecked(v, row, columns[k])))

sum_of_row_subset(v, row, columns) ==
    sum_of_row_subset_from(v, row, columns, 1, F(0))

(***************************************************************************)
(* Vec::swap_remove(k): the element at index k is removed and replaced by  *)
(* the last element.                                                       *)
(***************************************************************************)
\* swap_remove that drops the last element without moving it into slot k
swap_remove_truncate(vec, k) ==
    [removed |-> vec[k + 1], vec |-> SubSeq(vec, 1, Len(vec) - 1)]

swap_remove(vec, k) ==
    [removed |-> vec[k + 1],
     vec |-> [q \in 1..(Len(vec) - 1) |-> IF q = k + 1 THEN vec[Len(vec)] ELSE vec[q]]]

(***************************************************************************)
(* Permutation (crate::perm), from its contract: a bijective ordering of   *)
(* [0, n_items); shuffle leaves any ordering of the same items;            *)
(* from_vector accepts exactly the orderings of [0, len).                  *)
(***************************************************************************)
perm_n_items(p) == Len(p)

perm_get(p, k) == p[k + 1]

perm_slice_until(p, k) == SubSeq(p, 1, k)

perm_shuffle(p) == AllPermutations(Len(p))

perm_from_vector(vec) ==
    IF IsPermutation(vec, Len(vec)) THEN [some |-> TRUE, v |-> vec]
    ELSE [some |-> FALSE]

(***************************************************************************)
(* Clustering (crate::clust), from its contract: labels[item + 1] is the   *)
(* label of the item's cluster, or Unallocated.                            *)
(***************************************************************************)
Unallocated == -1

clust_unallocated(n) == [labels |-> Fill(n, Unallocated)]

clust_used_labels(c) == Range(c.labels) \ {Unallocated}

clust_n_clusters(c) == Cardinality(clust_used_labels(c))

clust_items_of(c, label) ==
    SelectSeq(Natural(Len(c.labels)), LAMBDA item : c.labels[item + 1] = label)

clust_size_of(c, label) == Len(clust_items_of(c, label))

\* the smallest label no item carries
clust_new_label(c) ==
    CHOOSE l \in 0..Len(c.labels) :
        /\ l \notin clust_used_labels(c)
        /\ \A m \in 0..(l - 1) : m \in clust_used_labels(c)

\* every nonempty label in increasing order, then one new-cluster label
clust_available_labels_for_allocation_with_target(c, item) ==
    SelectSeq(Natural(Len(c.labels) + 1),
              LAMBDA l : l \in clust_used_labels(c))
        \o <<clust_new_label(c)>>

clust_allocate(c, item, label) == [c EXCEPT !.labels[item + 1] = label]

(***************************************************************************)
(* Clustering::select(labels_and_weights, false, 0, Some(rng), false).0,   *)
(* from its contract: one candidate is drawn with probability proportional *)
(* to its weight, so a candidate of weight 0 is never drawn; the call is   *)
(* fatal when the weights are not a distribution (a weight that is         *)
(* negative, NaN or infinite, or no positive weight at all).  The result   *)
(* is the set of outcomes over all draws of the rng.                       *)
(***************************************************************************)
valid_weights(l_w) ==
    /\ \A q \in DOMAIN l_w : l_w[q][2].k = "fin" /\ l_w[q][2].n >= 0
    /\ \E q \in DOMAIN l_w : l_w[q][2].n > 0

select(l_w) ==
    IF valid_weights(l_w)
    THEN {[k |-> "value", v |-> l_w[q][1]] : q \in {r \in DOMAIN l_w : l_w[r][2].n > 0}}
    ELSE {[k |-> "panic"]}

(***************************************************************************)
(* State.                                                                  *)
(***************************************************************************)
VARIABLES
    matrix,             \* the owning SquareMatrix: [data, n_items]
    writes,             \* number of data_mut() writes so far
    params,             \* the Option<EpaParameters> returned by new
    pc,                 \* where the program is
    call,               \* the operation called last and its arguments
    ret,                \* what the operation called last returned
    permutation,        \* shuffle_permutation: the local Vec permutation
    available,          \* shuffle_permutation: the local Vec available
    current_index,      \* shuffle_permutation: the local current_index
    i,                  \* sample: the loop variable
    d2,                 \* sample: the local d2
    clustering,         \* sample: the local Clustering
    labels_and_weights  \* sample: the candidates of the current step

vars == <<matrix, writes, params, pc, call, ret, permutation, available,
          current_index, i, d2, clustering, labels_and_weights>>

shuffle_locals == <<permutation, available, current_index>>
sample_locals == <<i, d2, clustering, labels_and_weights>>

NoParams == [some |-> FALSE]
Unit == [k |-> "unit"]
Panic == [k |-> "panic"]

Init ==
    /\ matrix = [data |-> <<>>, n_items |-> 0]
    /\ writes = 0
    /\ params = NoParams
    /\ pc = "start"
    /\ call = [op |-> "none"]
    /\ ret = Unit
    /\ permutation = <<>>
    /\ available = <<>>
    /\ current_index = 0
    /\ i = 0
    /\ d2 = F(0)
    /\ clustering = <<>>
    /\ labels_and_weights = <<>>

(***************************************************************************)
(* The matrix: the factories, a write through data_mut, an indexed read    *)
(* of a view.                                                              *)
(***************************************************************************)
Construct(kind, n) ==
    /\ pc = "start"
    /\ matrix' = CASE kind = "zeros" -> zeros(n)
                   [] kind = "ones" -> ones(n)
                   [] OTHER -> identity(n)
    /\ pc' = "idle"
    /\ call' = [op |-> kind, n_items |-> n]
    /\ ret' = Unit
    /\ UNCHANGED <<writes, params, shuffle_locals, sample_locals>>

\* data_mut()[k] = v ; the borrow of a live EpaParameters excludes it
DataMutWrite(k, v) ==
    /\ pc = "idle"
    /\ ~params.some
    /\ writes < MaxWrites
    /\ k < Len(matrix.data)
    /\ matrix' = [matrix EXCEPT !.data[k + 1] = F(v)]
    /\ writes' = writes + 1
    /\ call' = [op |-> "data_mut", k |-> k, v |-> v]
    /\ ret' = Unit
    /\ UNCHANGED <<params, pc, shuffle_locals, sample_locals>>

\* matrix.view()[(r, c)] ; view() borrows the matrix mutably, which a live
\* EpaParameters excludes, and panics when from_slice's assertion fails
IndexAccess(r, c) ==
    /\ pc = "idle"
    /\ ~params.some
    /\ call' = [op |-> "index", i |-> r, j |-> c]
    /\ ret' = IF view(matrix).ok THEN index(view(matrix), r, c) ELSE Panic
    /\ pc' = IF view(matrix).ok /\ index(view(matrix), r, c).k # "panic"
             THEN pc ELSE "panicked"
    /\ UNCHANGED <<matrix, writes, params, shuffle_locals, sample_locals>>

(***************************************************************************)
(* EpaParameters::new                                                      *)
(***************************************************************************)
\* new without the comparison of the two item counts
new_unchecked(sim, perm, ms, dc) ==
    [some |-> TRUE, similarity |-> sim, permutation |-> perm,
     mass |-> ms, discount |-> dc]

new(sim, perm, ms, dc) ==
    IF sim.n_items # perm_n_items(perm)
    THEN NoParams
    ELSE [some |-> TRUE, similarity |-> sim, permutation |-> perm,
          mass |-> ms, discount |-> dc]

\* the values of mass and discount tried
Masses == {F(0), F(1)}
Discounts == {F(0), Fin(1, 2)}

\* EpaParameters::new(matrix.view(), perm, ms, dc)
New(perm, ms, dc) ==
    /\ pc = "idle"
    /\ ~params.some
    /\ call' = [op |-> "new", similarity |-> view(matrix), permutation |-> perm,
                mass |-> ms, discount |-> dc]
    /\ IF view(matrix).ok
       THEN /\ params' = new(view(matrix), perm, ms, dc)
            /\ ret' = Unit
            /\ UNCHANGED pc
       ELSE /\ pc' = "panicked"
            /\ ret' = Panic
            /\ UNCHANGED params
    /\ UNCHANGED <<matrix, writes, shuffle_locals, sample_locals>>

(***************************************************************************)
(* EpaParameters::shuffle_permutation.  strategy is the value of the       *)
(* environment variable DBD_PERMUTATION ("other": unset or anything else). *)
(***************************************************************************)
usize_MAX == -1

\* Ok("shuffle") and the default arm: self.permutation.shuffle(rng)
ShuffleUniform(strategy, p) ==
    /\ pc = "idle"
    /\ params.some
    /\ strategy \in {"shuffle", "other"}
    /\ p \in perm_shuffle(params.permutation)
    /\ params' = [params EXCEPT !.permutation = p]
    /\ call' = [op |-> "shuffle_permutation", strategy |-> strategy]
    /\ ret' = Unit
    /\ UNCHANGED <<matrix, writes, pc, shuffle_locals, sample_locals>>

\* Ok("nearest") and Ok("randomnearest"), up to the while loop;
\* start is rng.gen_range(0..available.len())
NearestBegin(strategy, start) ==
    /\ pc = "idle"
    /\ params.some
    /\ strategy \in {"nearest", "randomnearest"}
    /\ LET all == Natural(perm_n_items(params.permutation))
       IN  /\ start \in 0..(Len(all) - 1)
           /\ current_index' = swap_remove(all, start).removed
           /\ available' = swap_remove(all, start).vec
           /\ permutation' = <<swap_remove(all, start).removed>>
    /\ pc' = strategy
    /\ call' = [op |-> "shuffle_permutation", strategy |-> strategy]
    /\ ret' = Unit
    /\ UNCHANGED <<matrix, writes, params, sample_locals>>

\* the scan with candidate >= best_value: a tie goes to the last candidate
RECURSIVE nearest_scan_ge(_, _, _, _, _, _)
nearest_scan_ge(sim, cur, avail, k, best_value, best_index) ==
    IF k >= Len(avail) THEN best_index
    ELSE LET candidate == at(sim, cur, avail[k + 1])
         IN  IF FGe(candidate, best_value)
             THEN nearest_scan_ge(sim, cur, avail, k + 1, candidate, k)
             ELSE nearest_scan_ge(sim, cur, avail, k + 1, best_value, best_index)

\* the for loop of nearest over available.iter().enumerate(), from index k on
RECURSIVE nearest_scan(_, _, _, _, _, _)
nearest_scan(sim, cur, avail, k, best_value, best_index) ==
    IF k >= Len(avail) THEN best_index
    ELSE LET candidate == at(sim, cur, avail[k + 1])
         IN  IF FGt(candidate, best_value)
             THEN nearest_scan(sim, cur, avail, k + 1, candidate, k)
             ELSE nearest_scan(sim, cur, avail, k + 1, best_value, best_index)

nearest_best_index(sim, cur, avail) ==
    nearest_scan(sim, cur, avail, 0, NegInf, usize_MAX)

\* one iteration of the while loop of nearest
NearestStep ==
    /\ pc = "nearest"
    /\ available # <<>>
    /\ LET best_index == nearest_best_index(params.similarity, current_index, available)
       IN  IF best_index = usize_MAX
           THEN /\ pc' = "panicked"
                /\ ret' = Panic
                /\ UNCHANGED shuffle_locals
           ELSE /\ current_index' = swap_remove(available, best_index).removed
                /\ available' = swap_remove(available, best_index).vec
                /\ permutation' = Append(permutation, swap_remove(available, best_index).removed)
                /\ UNCHANGED <<pc, ret>>
    /\ UNCHANGED <<matrix, writes, params, call, sample_locals>>

\* available.iter().map(|i| self.similarity[(current_index, *i)]).enumerate()
index_and_weights(sim, cur, avail) ==
    [q \in 1..Len(avail) |-> <<q - 1, at(sim, cur, avail[q])>>]

\* one iteration of the while loop of randomnearest
RandomNearestStep ==
    /\ pc = "randomnearest"
    /\ available # <<>>
    /\ \E o \in select(index_and_weights(params.similarity, current_index, available)) :
           IF o.k = "panic"
           THEN /\ pc' = "panicked"
                /\ ret' = Panic
                /\ UNCHANGED shuffle_locals
           ELSE /\ current_index' = swap_remove(available, o.v).removed
                /\ available' = swap_remove(available, o.v).vec
                /\ permutation' = Append(permutation, swap_remove(available, o.v).removed)
                /\ UNCHANGED <<pc, ret>>
    /\ UNCHANGED <<matrix, writes, params, call, sample_locals>>

\* after the while loop: self.permutation = Permutation::from_vector(..).unwrap()
NearestFinish ==
    /\ pc \in {"nearest", "randomnearest"}
    /\ available = <<>>
    /\ IF perm_from_vector(permutation).some
       THEN /\ params' = [params EXCEPT !.permutation = perm_from_vector(permutation).v]
            /\ pc' = "idle"
            /\ permutation' = <<>>
            /\ current_index' = 0
            /\ UNCHANGED <<available, ret>>
       ELSE /\ pc' = "panicked"
            /\ ret' = Panic
            /\ UNCHANGED <<params, shuffle_locals>>
    /\ UNCHANGED <<matrix, writes, call, sample_locals>>

(***************************************************************************)
(* sample                                                                  *)
(***************************************************************************)
\* the fold that computes d2, from i = k on, and the division by ni
RECURSIVE d2_fold(_, _, _)
d2_fold(p, k, x) ==
    IF k >= p.similarity.n_items THEN x
    ELSE d2_fold(p, k + 1,
                 FAdd(x, at(p.similarity, perm_get(p.permutation, k - 1),
                            perm_get(p.permutation, k))))

\* d2 without the term that closes the cycle, similarity[(pi(n-1), pi(0))]
sample_d2_open(p) == FDiv(d2_fold(p, 1, F(0)), F(p.similarity.n_items))

sample_d2(p) ==
    LET ni == p.similarity.n_items
    IN  FDiv(d2_fold(p, 1, at(p.similarity, perm_get(p.permutation, ni - 1),
                              perm_get(p.permutation, 0))),
             F(ni))

\* the candidates and their weights at step k of the loop
sample_labels_and_weights(p, dd2, c, k) ==
    LET ii == perm_get(p.permutation, k)
        numerator == IF k = 0 THEN dd2
                     ELSE at(p.similarity, ii, perm_get(p.permutation, k - 1))
        jump_density == FDiv(dd2, numerator)
        qt == F(clust_n_clusters(c))
        kt == FDiv(FSub(F(k), FMul(p.discount, qt)),
                   sum_of_row_subset(p.similarity, ii,
                                     perm_slice_until(p.permutation, k)))
        labels == clust_available_labels_for_allocation_with_target(c, ii)
        weight(label) ==
            IF clust_size_of(c, label) = 0
            THEN FMul(FAdd(p.mass, FMul(p.discount, qt)), jump_density)
            ELSE FMul(kt, sum_of_row_subset(p.similarity, ii, clust_items_of(c, label)))
    IN  [q \in 1..Len(labels) |-> <<labels[q], weight(labels[q])>>]

\* up to the for loop
SampleBegin ==
    /\ pc = "idle"
    /\ params.some
    /\ d2' = sample_d2(params)
    /\ clustering' = clust_unallocated(params.similarity.n_items)
    /\ i' = 0
    /\ labels_and_weights' = <<>>
    /\ pc' = "sample"
    /\ call' = [op |-> "sample"]
    /\ ret' = Unit
    /\ UNCHANGED <<matrix, writes, params, shuffle_locals>>

\* one iteration of the for loop, up to labels_and_weights
SampleWeigh ==
    /\ pc = "sample"
    /\ i < params.similarity.n_items
    /\ labels_and_weights' = sample_labels_and_weights(params, d2, clustering, i)
    /\ pc' = "select"
    /\ UNCHANGED <<matrix, writes, params, call, ret, shuffle_locals, i, d2, clustering>>

\* the iteration allocating permutation.get(0) instead of permutation.get(i)
SampleAllocate_first ==
    /\ pc = "select"
    /\ \E o \in select(labels_and_weights) :
           IF o.k = "panic"
           THEN /\ pc' = "panicked"
                /\ ret' = Panic
                /\ UNCHANGED sample_locals
           ELSE /\ clustering' = clust_allocate(clustering, perm_get(params.permutation, 0), o.v)
                /\ i' = i + 1
                /\ labels_and_weights' = <<>>
                /\ pc' = "sample"
                /\ UNCHANGED <<ret, d2>>
    /\ UNCHANGED <<matrix, writes, params, call, shuffle_locals>>

\* the rest of the iteration: select and allocate
SampleAllocate ==
    /\ pc = "select"
    /\ \E o \in select(labels_and_weights) :
           IF o.k = "panic"
           THEN /\ pc' = "panicked"
                /\ ret' = Panic
                /\ UNCHANGED sample_locals
           ELSE /\ clustering' = clust_allocate(clustering, perm_get(params.permutation, i), o.v)
                /\ i' = i + 1
                /\ labels_and_weights' = <<>>
                /\ pc' = "sample"
                /\ UNCHANGED <<ret, d2>>
    /\ UNCHANGED <<matrix, writes, params, call, shuffle_locals>>

\* after the loop: the clustering is returned
SampleReturn ==
    /\ pc = "sample"
    /\ i = params.similarity.n_items
    /\ ret' = [k |-> "clustering", v |-> clustering]
    /\ pc' = "idle"
    /\ i' = 0
    /\ d2' = F(0)
    /\ clustering' = <<>>
    /\ UNCHANGED <<matrix, writes, params, call, shuffle_locals, labels_and_weights>>

Next ==
    \/ \E kind \in {"zeros", "ones", "identity"}, n \in 1..MaxN : Construct(kind, n)
    \/ \E k \in 0..(MaxN * MaxN - 1), v \in (-1)..MaxVal : DataMutWrite(k, v)
    \/ \E r \in 0..MaxN, c \in 0..MaxN : IndexAccess(r, c)
    \/ \E m \in 1..MaxN : \E perm \in AllPermutations(m), ms \in Masses, dc \in Discounts :
           New(perm, ms, dc)
    \/ \E strategy \in {"shuffle", "other"}, p \in AllPermutations(matrix.n_items) :
           ShuffleUniform(strategy, p)
    \/ \E strategy \in {"nearest", "randomnearest"}, start \in 0..(MaxN - 1) :
           NearestBegin(strategy, start)
    \/ NearestStep
    \/ RandomNearestStep
    \/ NearestFinish
    \/ SampleBegin
    \/ SampleWeigh
    \/ SampleAllocate
    \/ SampleReturn

Spec == Init /\ [][Next]_vars

(***************************************************************************)
(* Definitions shared by the properties.                                   *)
(***************************************************************************)
InShuffle == pc \in {"nearest", "randomnearest"}
InSample == pc \in {"sample", "select"}

\* similarity[(r, c)] of the parameters, read through Index
Sim(r, c) == index(params.similarity, r, c).v

\* pi(k), the k-th item visited
Pi(k) == params.permutation[k + 1]

NItems == params.similarity.n_items

\* the sum of g[x] over the x in S
RECURSIVE SumFn(_, _)
SumFn(g, S) ==
    IF S = {} THEN F(0)
    ELSE LET x == CHOOSE y \in S : TRUE
         IN  FAdd(g[x], SumFn(g, S \ {x}))

HasNoDuplicates(vec) == Cardinality(Range(vec)) = Len(vec)

\* the items of cluster label in clustering c
Members(c, label) == {item \in 0..(Len(c.labels) - 1) : c.labels[item + 1] = label}

Allocated(c) == {item \in 0..(Len(c.labels) - 1) : c.labels[item + 1] # Unallocated}

\* parameters in the conventional range of the EPA distribution: every
\* similarity positive, discount in [0, 1), mass > -discount
ConventionalParameters ==
    /\ params.some
    /\ \A q \in DOMAIN params.similarity.data : FGt(params.similarity.data[q], F(0))
    /\ FGe(params.discount, F(0))
    /\ FGt(F(1), params.discount)
    /\ FGt(FAdd(params.mass, params.discount), F(0))

(***************************************************************************)
(* C1.  sample terminates with a clustering in which every item of         *)
(* [0, n_items) is allocated to exactly one cluster and there is at least  *)
(* one cluster.  Stated here for parameters in the conventional range      *)
(* only: sample never aborts, and what it returns is a complete partition. *)
(***************************************************************************)
C1_PartitionCompleteness ==
    (ConventionalParameters /\ call.op = "sample") =>
        /\ pc # "panicked"
        /\ (pc = "idle" =>
               /\ ret.k = "clustering"
               /\ Len(ret.v.labels) = NItems
               /\ Allocated(ret.v) = 0..(NItems - 1)
               /\ clust_n_clusters(ret.v) >= 1)

(***************************************************************************)
(* C2.  Under every strategy self.permutation stays a sequence of length   *)
(* n_items holding each index of [0, n_items) exactly once; while nearest  *)
(* and randomnearest build the new ordering, the indices pushed so far are *)
(* distinct, none of them is still available, pushed and available         *)
(* together are [0, n_items), and the final from_vector(..).unwrap() does  *)
(* not fail; n_items is unchanged.                                         *)
(***************************************************************************)
C2_Bijection ==
    /\ params.some =>
          /\ NItems = matrix.n_items
          /\ perm_n_items(params.permutation) = NItems
          /\ IsPermutation(params.permutation, NItems)
    /\ InShuffle =>
          /\ HasNoDuplicates(permutation)
          /\ HasNoDuplicates(available)
          /\ Range(permutation) \cap Range(available) = {}
          /\ Range(permutation) \cup Range(available) = 0..(NItems - 1)
    /\ (pc = "panicked" /\ call.op = "shuffle_permutation") =>
          /\ call.strategy = "randomnearest"
          /\ available # <<>>

\* randomnearest has built a whole ordering of three items
C2_Witness ==
    /\ pc = "idle"
    /\ call.op = "shuffle_permutation"
    /\ call.strategy = "randomnearest"
    /\ NItems = 3
    /\ params.permutation # Natural(3)

(***************************************************************************)
(* C3.  new returns None whenever the item counts of the similarity view   *)
(* and of the permutation differ and Some of exactly the four supplied     *)
(* values whenever they are equal; sample never runs on parameters whose   *)
(* two item counts differ.                                                 *)
(***************************************************************************)
C3_Validation ==
    /\ call.op = "new" =>
          IF call.similarity.n_items # perm_n_items(call.permutation)
          THEN params = NoParams
          ELSE params = [some |-> TRUE, similarity |-> call.similarity,
                         permutation |-> call.permutation,
                         mass |-> call.mass, discount |-> call.discount]
    /\ InSample =>
          /\ params.some
          /\ params.similarity.n_items = perm_n_items(params.permutation)

\* new has refused a permutation of another size
C3_Witness ==
    /\ call.op = "new"
    /\ call.similarity.n_items = 3
    /\ perm_n_items(call.permutation) = 2
    /\ params = NoParams

(***************************************************************************)
(* C4.  At every point of the allocation loop the number of occupied       *)
(* clusters is at most the number i of items placed so far, and exactly i  *)
(* items are allocated; from one point to the next the number of clusters  *)
(* never decreases and grows by at most 1, and an allocated item keeps its *)
(* cluster.                                                                *)
(***************************************************************************)
C4_MonotonicGrowth ==
    /\ [](InSample =>
            /\ clust_n_clusters(clustering) <= i
            /\ Cardinality(Allocated(clustering)) = i)
    /\ [][(InSample /\ InSample') =>
            /\ clust_n_clusters(clustering') >= clust_n_clusters(clustering)
            /\ clust_n_clusters(clustering') <= clust_n_clusters(clustering) + 1
            /\ \A item \in Allocated(clustering) :
                   clustering'.labels[item + 1] = clustering.labels[item + 1]]_vars

\* three items placed: two of them share a cluster
C4_Witness ==
    /\ pc = "sample"
    /\ i = 3
    /\ clust_n_clusters(clustering) = 2

(***************************************************************************)
(* C5.  Two runs of sample on the same parameters and the same draws give  *)
(* the same partition.  This relates two runs; every step above is an      *)
(* operator of the parameters, the clustering so far and the outcome of    *)
(* select, so no formula over one behaviour states it.                     *)
(***************************************************************************)

(***************************************************************************)
(* C6.  For n_items = 1 sample returns the partition with the single       *)
(* cluster {0}; at step 0 the only candidate is the new-cluster label,     *)
(* with weight (mass + discount*0) * (d2/d2), d2 = similarity[(pi(0),      *)
(* pi(0))].  Stated here for parameters in the conventional range only.    *)
(***************************************************************************)
C6_SingleItem ==
    (ConventionalParameters /\ NItems = 1 /\ call.op = "sample") =>
        /\ pc # "panicked"
        /\ (pc = "idle" => ret = [k |-> "clustering", v |-> [labels |-> <<0>>]])
        /\ (pc = "select" =>
               labels_and_weights =
                   << <<0, FMul(FAdd(params.mass, FMul(params.discount, F(0))),
                                FDiv(Sim(Pi(0), Pi(0)), Sim(Pi(0), Pi(0))))>> >>)

(***************************************************************************)
(* C7.  Right after identity(n) the matrix holds n*n entries, 1.0 at       *)
(* (r, c) when r = c and 0.0 otherwise, so exactly n entries are 1.0;      *)
(* right after zeros(n) and ones(n) all n*n entries are 0.0 and 1.0; the   *)
(* length of the backing storage is always n_items squared.                *)
(***************************************************************************)
C7_Factories ==
    /\ Len(matrix.data) = matrix.n_items * matrix.n_items
    /\ call.op \in {"zeros", "ones", "identity"} =>
          /\ matrix.n_items = call.n_items
          /\ view(matrix).ok
          /\ \A r \in 0..(matrix.n_items - 1), c \in 0..(matrix.n_items - 1) :
                 index(view(matrix), r, c) =
                     [k |-> "value",
                      v |-> IF call.op = "zeros" THEN F(0)
                            ELSE IF call.op = "ones" THEN F(1)
                            ELSE IF r = c THEN F(1) ELSE F(0)]
    /\ call.op = "identity" =>
          Cardinality({q \in DOMAIN matrix.data : matrix.data[q] # F(0)}) = matrix.n_items

\* identity(3) has just been built
C7_Witness ==
    /\ call.op = "identity"
    /\ matrix.n_items = 3
    /\ pc = "idle"

(***************************************************************************)
(* C8.  Every item that nearest pushes after the start item is a remaining *)
(* candidate whose similarity[(current, candidate)] is the highest, and    *)
(* the first such candidate in the order of the available list; it becomes *)
(* the current item and is swap-removed.  The step takes no random draw:   *)
(* the first highest candidate is unique.                                  *)
(***************************************************************************)
C8_NearestGreedy ==
    [][(pc = "nearest" /\ available # <<>> /\ pc' = "nearest") =>
          \E q \in DOMAIN available :
              /\ permutation' = Append(permutation, available[q])
              /\ current_index' = available[q]
              /\ available' = swap_remove(available, q - 1).vec
              /\ \A r \in DOMAIN available :
                     FGe(Sim(current_index, available[q]), Sim(current_index, available[r]))
              /\ \A r \in 1..(q - 1) :
                     FGt(Sim(current_index, available[q]), Sim(current_index, available[r]))]_vars

\* on ones(3) from start 0 every step is a tie, which goes to the first
\* candidate of the swap-removed list [2, 1]
C8_Witness ==
    /\ pc = "idle"
    /\ call.op = "shuffle_permutation"
    /\ call.strategy = "nearest"
    /\ params.similarity.data = ones(3).data
    /\ params.permutation = <<0, 2, 1>>

(***************************************************************************)
(* C9.  d2 is the sum of similarity[(pi(k-1 mod n), pi(k))] over k in      *)
(* 0..n divided by n.  At step i, with ii = pi(i), qt clusters occupied    *)
(* and numerator = d2 if i = 0 else similarity[(ii, pi(i-1))], the         *)
(* candidates are the occupied labels and one label of size 0; the label   *)
(* of size 0 has weight (mass + discount*qt) * d2/numerator and an         *)
(* occupied label L has weight ((i - discount*qt)/S) * sum of              *)
(* similarity[(ii, c)] over c in L, S the sum of similarity[(ii, pi(k))]   *)
(* over k < i.  For ones(3), mass 1, discount 0, permutation [0,1,2]:      *)
(* d2 = 1, item 0 is placed alone, and at step 1 both weights are 1.       *)
(***************************************************************************)
C9_D2 ==
    FDiv(SumFn([k \in 0..(NItems - 1) |-> Sim(Pi((k + NItems - 1) % NItems), Pi(k))],
               0..(NItems - 1)),
         F(NItems))

C9_NewWeight ==
    LET qt == F(clust_n_clusters(clustering))
        numerator == IF i = 0 THEN C9_D2 ELSE Sim(Pi(i), Pi(i - 1))
    IN  FMul(FAdd(params.mass, FMul(params.discount, qt)), FDiv(C9_D2, numerator))

C9_ExistingWeight(label) ==
    LET qt == F(clust_n_clusters(clustering))
        S == SumFn([k \in 0..(i - 1) |-> Sim(Pi(i), Pi(k))], 0..(i - 1))
    IN  FMul(FDiv(FSub(F(i), FMul(params.discount, qt)), S),
             SumFn([c \in Members(clustering, label) |-> Sim(Pi(i), c)],
                   Members(clustering, label)))

C9_Scenario ==
    /\ params.similarity.data = ones(3).data
    /\ params.mass = F(1)
    /\ params.discount = F(0)
    /\ params.permutation = <<0, 1, 2>>

C9_Weights ==
    /\ InSample => d2 = C9_D2
    /\ pc = "select" =>
          /\ HasNoDuplicates([q \in DOMAIN labels_and_weights |-> labels_and_weights[q][1]])
          /\ clust_used_labels(clustering) \subseteq
                 {labels_and_weights[q][1] : q \in DOMAIN labels_and_weights}
          /\ Cardinality({q \in DOMAIN labels_and_weights :
                             Members(clustering, labels_and_weights[q][1]) = {}}) = 1
          /\ \A q \in DOMAIN labels_and_weights :
                 labels_and_weights[q][2] =
                     IF Members(clustering, labels_and_weights[q][1]) = {}
                     THEN C9_NewWeight
                     ELSE C9_ExistingWeight(labels_and_weights[q][1])
    /\ (InSample /\ C9_Scenario) =>
          /\ d2 = F(1)
          /\ (pc = "select" /\ i = 0) => labels_and_weights = << <<0, F(1)>> >>
          /\ i = 1 => clustering.labels = <<0, Unallocated, Unallocated>>
          /\ (pc = "select" /\ i = 1) =>
                 labels_and_weights = << <<0, F(1)>>, <<1, F(1)>> >>

\* step 1 of the scenario: the candidates are weighed
C9_Witness ==
    /\ pc = "select"
    /\ C9_Scenario
    /\ i = 1

(***************************************************************************)
(* C10.  The indexed access view[(i, j)] returns the element at offset     *)
(* n*j + i when i and j are both in [0, n) and panics whenever i or j is   *)
(* outside [0, n).                                                         *)
(***************************************************************************)
C10_IndexGuard ==
    call.op = "index" =>
        IF call.i < matrix.n_items /\ call.j < matrix.n_items
        THEN ret = [k |-> "value", v |-> matrix.data[matrix.n_items * call.j + call.i + 1]]
        ELSE ret = Panic

=============================================================================
